---- MODULE Spec2Model ----
(***************************************************************************)
(* A model of rag-document-chat: the Chroma-backed vector store            *)
(* (vector_store.py) and the answer generation chain (rag_chain.py).       *)
(*                                                                         *)
(* Text is a sequence of one-character strings, so Len is the length in    *)
(* characters and \o is string concatenation.  A metadata field that is    *)
(* missing is a field outside the DOMAIN of the metadata record; the       *)
(* Python default "" of metadata.get(k, "") is written Absent.             *)
(***************************************************************************)
EXTENDS Integers, Sequences, FiniteSets, TLC

VARIABLES
    coll,         \* the persisted Chroma collection: records in insertion order
    salt,         \* the per-process seed of Python's str hash
    onDuplicate,  \* what the installed Chroma does on add() of an existing id
    calls,        \* number of add_documents calls made so far
    last,         \* the outcome of the last public operation of vector_store
    pc,           \* concurrent requests: each request's position
    loc,          \* concurrent requests: each request's local variables
    chain,        \* the last generate_answer call: its arguments and outcome
    app           \* the Streamlit session of app.py: st.session_state and the
                  \* outcome of the last handler run

vars == <<coll, salt, onDuplicate, calls, last, pc, loc, chain, app>>

-----------------------------------------------------------------------------
(* Bounds *)

MaxCalls == 2        \* add_documents calls in one behaviour
SmallUpload == 2     \* chunks in a small upload
MaxHist == 11        \* longest chat history tried
MaxContentLen == 152 \* longest chunk content tried for snippets
MaxRetrieved == 3    \* longest list of retrieved documents given to generate_answer
MaxPairs == 7        \* most questions answered in one long session of the application
FewPairs == 1        \* most questions answered in a session with restarts and other sessions

(* Program constants *)

BatchSize == 100     \* vector_store.py:51
HashMod == 100000    \* vector_store.py:46
SnippetLen == 150    \* rag_chain.py:97
MaxTurns == 5        \* rag_chain.py:65
DefaultK == 5        \* vector_store.py:61

Absent == 0 - 1      \* encodes the default "" of metadata.get(key, "")

-----------------------------------------------------------------------------
(* Helpers on sequences *)

Min(a, b) == IF a <= b THEN a ELSE b

Range(s) == {s[i] : i \in 1..Len(s)}

\* Python slice s[start:end] with 0-based start, exclusive end, clipped.
Slice(s, start, end) == SubSeq(s, start + 1, Min(end, Len(s)))

\* Python slice s[-n:] for n > 0.
LastN(s, n) == IF Len(s) <= n THEN s ELSE SubSeq(s, Len(s) - n + 1, Len(s))

\* metadata.get(key, "")
MetaGet(m, key) == IF key \in DOMAIN m THEN m[key] ELSE Absent

\* Python truthiness of a metadata value: "" and 0 are falsy.
Truthy(v) == v # Absent /\ v # 0

\* str(v) inside an f-string: "" for the default, the digits otherwise.
Str(v) == IF v = Absent THEN <<>> ELSE <<ToString(v)>>

Ord(ch) ==
    CASE ch = "a" -> 97 [] ch = "b" -> 98 [] ch = "x" -> 120 [] ch = "y" -> 121
      [] ch = "-" -> 45 [] ch = "p" -> 112 [] ch = "c" -> 99 [] ch = "1" -> 49
      [] OTHER -> 63

-----------------------------------------------------------------------------
(* add_documents: record ids *)

\* hash(str): a keyed hash of the content, keyed by the process's seed.
RECURSIVE HashFrom(_, _, _)
HashFrom(h, s, seed) ==
    IF s = <<>> THEN h
    ELSE HashFrom((h * 31 + Ord(Head(s)) + seed) % 1000003, Tail(s), seed)

PyHash(seed, s) == HashFrom(seed, s, seed)

\* f"doc_{i}_{hash(doc.page_content) % 100000}", i the 0-based position
\* of the document in this call's list.
DocId(seed, i, doc) ==
    <<"doc_", ToString(i), "_", ToString(PyHash(seed, doc.page_content) % HashMod)>>

Ids(seed, documents) ==
    [n \in 1..Len(documents) |-> DocId(seed, n - 1, documents[n])]

-----------------------------------------------------------------------------
(* The Chroma collection, as vector_store.py uses it *)

CollIds(c) == {c[n].id : n \in 1..Len(c)}

\* collection.count()
CollCount(c) == Len(c)

\* collection.add(ids, documents, metadatas) of one batch, without a storage
\* failure.  An id that is already stored is either skipped (the stored record
\* stays as it is) or makes the whole add raise, depending on the installed
\* Chroma; nothing is stored when it raises.  The ids of one batch differ in
\* their position part, so no id occurs twice within a batch.
AppendNew(c, ids, docs) ==
    LET stored == CollIds(c)
        recs == [n \in 1..Len(ids) |->
                    [id |-> ids[n],
                     document |-> docs[n].page_content,
                     metadata |-> docs[n].metadata]]
    IN  c \o SelectSeq(recs, LAMBDA r : r.id \notin stored)

CollAdd(c, ids, docs, onDup) ==
    IF onDup = "raise" /\ Range(ids) \cap CollIds(c) # {}
    THEN [raised |-> TRUE, coll |-> c]
    ELSE [raised |-> FALSE, coll |-> AppendNew(c, ids, docs)]

\* The similarity of a stored text to the query text, as the embedding
\* function and the distance of the collection give it: here the number of
\* characters of the text that occur in the query.
Score(q, text) == Cardinality({n \in 1..Len(text) : text[n] \in Range(q)})

Reverse(s) == [n \in 1..Len(s) |-> s[Len(s) + 1 - n]]

\* The positions of c ordered from the nearest on: by descending score from
\* score v down, and among equal scores the earliest or the latest inserted
\* first, as the store happens to return them.
RECURSIVE Ranked(_, _, _)
Ranked(sc, v, tie) ==
    IF v < 0 THEN <<>>
    ELSE LET level == SelectSeq([n \in 1..Len(sc) |-> n], LAMBDA n : sc[n] = v)
         IN  (IF tie = "earliest" THEN level ELSE Reverse(level))
             \o Ranked(sc, v - 1, tie)

MaxScore(sc) == IF sc = <<>> THEN 0 ELSE CHOOSE v \in Range(sc) : \A w \in Range(sc) : w <= v

\* collection.query(query_texts=[query], n_results=n): the positions of the
\* n nearest records (fewer when fewer are stored), nearest first.
CollQuery(c, q, n, tie) ==
    LET sc == [m \in 1..Len(c) |-> Score(q, c[m].document)]
    IN  Slice(Ranked(sc, MaxScore(sc), tie), 0, n)

\* collection.delete(ids=ids)
CollDelete(c, ids) == SelectSeq(c, LAMBDA r : r.id \notin ids)

-----------------------------------------------------------------------------
(* vector_store.py: the public operations, as functions of the collection *)

NoCount == 0 - 1

NoResult ==
    [op |-> "none", outcome |-> "none", storageFailed |-> FALSE,
     docs |-> <<>>, count |-> NoCount, q |-> <<>>, k |-> 0,
     ids |-> <<>>, sizeBefore |-> 0, failedBatch |-> 0,
     errCount |-> NoCount]

NumBatches(n) == (n + BatchSize - 1) \div BatchSize

\* The loop of add_documents from position start (0-based) on.  failBatch is
\* the batch whose collection.add meets a storage failure (0: none does);
\* a failure of _get_collection counts as one of the first storage operation.
\* An exception of collection.add leaves the loop and the function.
RECURSIVE AddLoop(_, _, _, _, _, _)
AddLoop(c, ids, docs, start, failBatch, onDup) ==
    IF start >= Len(ids)
    THEN [coll |-> c, raised |-> FALSE, storageFailed |-> FALSE, failedBatch |-> 0]
    ELSE LET end == start + BatchSize
             j   == start \div BatchSize + 1
             r   == CollAdd(c, Slice(ids, start, end), Slice(docs, start, end), onDup)
         IN  IF j = failBatch
             THEN [coll |-> c, raised |-> TRUE, storageFailed |-> TRUE, failedBatch |-> j]
             ELSE IF r.raised
             THEN [coll |-> c, raised |-> TRUE, storageFailed |-> FALSE, failedBatch |-> j]
             ELSE AddLoop(r.coll, ids, docs, end, failBatch, onDup)

\* add_documents(documents).  The exception of collection.add is not caught:
\* it reaches the caller as the store raised it, and add_documents adds
\* nothing to it (errCount stays NoCount).
AddDocumentsResult(c, seed, documents, failBatch, onDup) ==
    LET ids == Ids(seed, documents)
        r   == AddLoop(c, ids, documents, 0, failBatch, onDup)
        base == [NoResult EXCEPT !.op = "add", !.ids = ids, !.sizeBefore = Len(c)]
    IN  [coll |-> r.coll,
         res |-> [base EXCEPT
                    !.outcome = IF r.raised THEN "raised" ELSE "returned",
                    !.storageFailed = r.storageFailed,
                    !.failedBatch = r.failedBatch]]

\* Document(page_content=..., metadata=...) of a stored record.
AsDocument(r) == [page_content |-> r.document, metadata |-> r.metadata]

\* search(query, k) when no storage operation fails: count, the early return
\* on an empty collection, k = min(k, count), and the query on the collection
\* cq, which is c unless another request changed the collection in between.
SearchDocs(count, cq, q, k, tie) ==
    IF count = 0 THEN <<>>
    ELSE LET top == CollQuery(cq, q, Min(k, count), tie)
         IN  [n \in 1..Len(top) |-> AsDocument(cq[top[n]])]

\* search(query, k).  fail names the storage operation that fails (a failure
\* of _get_collection counts as one of the first storage operation).
SearchResult(c, q, k, fail, tie) ==
    LET base == [NoResult EXCEPT !.op = "search", !.q = q, !.k = k,
                                 !.sizeBefore = Len(c)]
        raised == [base EXCEPT !.outcome = "raised", !.storageFailed = TRUE]
    IN  IF fail = "count" THEN raised
        ELSE IF CollCount(c) = 0 THEN [base EXCEPT !.outcome = "returned"]
        ELSE IF fail = "query" THEN raised
        ELSE [base EXCEPT !.outcome = "returned",
                          !.docs = SearchDocs(CollCount(c), c, q, k, tie)]

\* get_document_count(): every exception is caught and 0 returned.
GetDocumentCountUncaught(c, fail) ==
    LET base == [NoResult EXCEPT !.op = "count", !.sizeBefore = Len(c)]
    IN  IF fail = "count"
        THEN [base EXCEPT !.outcome = "raised", !.storageFailed = TRUE]
        ELSE [base EXCEPT !.outcome = "returned", !.count = CollCount(c)]

GetDocumentCountResult(c, fail) ==
    LET base == [NoResult EXCEPT !.op = "count", !.outcome = "returned",
                                 !.sizeBefore = Len(c)]
    IN  IF fail = "count"
        THEN [base EXCEPT !.storageFailed = TRUE, !.count = 0]
        ELSE [base EXCEPT !.count = CollCount(c)]

\* clear(): get all ids, delete them if there are any; every exception is
\* caught and dropped, so clear always returns.
ClearResult(c, fail) ==
    LET base == [NoResult EXCEPT !.op = "clear", !.outcome = "returned",
                                 !.sizeBefore = Len(c)]
        failed == [coll |-> c, res |-> [base EXCEPT !.storageFailed = TRUE]]
        all_ids == CollIds(c)
    IN  IF fail = "get" THEN failed
        ELSE IF all_ids = {} THEN [coll |-> c, res |-> base]
        ELSE IF fail = "delete" THEN failed
        ELSE [coll |-> CollDelete(c, all_ids), res |-> base]

-----------------------------------------------------------------------------
(* Inputs of the vector store *)

Salts == {0, 1}
DuplicatePolicies == {"skip", "raise"}
TiePolicies == {"earliest", "latest"}
FileNames == {<<"a">>, <<"b">>}
Queries == {<<"x">>, <<"b">>}
Ks == {DefaultK}
\* An upload: a file name and the number of chunks it splits into.  The large
\* upload needs a second batch.
Uploads ==
    {<<name, SmallUpload>> : name \in FileNames} \cup {<<<<"a">>, BatchSize + 1>>}

\* The text of chunk i of a file.  Files open with the same boilerplate
\* chunk, and the chunks of a file repeat.
ContentOf(name, i) ==
    IF i = 1 THEN <<"x", "y">> ELSE name \o <<IF i % 2 = 0 THEN "x" ELSE "y">>

\* The Documents _load_pdf makes of one page that splits into n chunks.
PdfPageDocs(name, page, n) ==
    [idx \in 1..n |->
        [page_content |-> ContentOf(name, idx),
         metadata |-> [source |-> name, page |-> page, chunk |-> idx,
                       type |-> "pdf"]]]

NoChain ==
    [question |-> <<>>, docs |-> <<>>, history |-> <<>>, mode |-> "none",
     llm |-> "none", messages |-> <<>>, llmCalls |-> 0, outcome |-> "none",
     answer |-> <<>>, sources |-> <<>>]

\* st.session_state as app.py initialises it, and no handler run yet.  A user
\* turn of chat_history is [role, content], an assistant turn has sources too.
NoApp ==
    [chat_history |-> <<>>, documents_loaded |-> FALSE, mode |-> "strict",
     file_names |-> <<>>, event |-> "none", prevHistory |-> <<>>,
     indexSize |-> 0, ingested |-> <<>>, call |-> NoChain]

-----------------------------------------------------------------------------
(* The vector store, one request at a time *)

InitStore ==
    /\ coll = <<>>
    /\ salt \in Salts
    /\ onDuplicate \in DuplicatePolicies
    /\ calls = 0
    /\ last = NoResult
    /\ pc = <<>>
    /\ loc = <<>>
    /\ chain = NoChain
    /\ app = NoApp

AddDocuments(name, n, failBatch) ==
    /\ calls < MaxCalls
    /\ LET r == AddDocumentsResult(coll, salt, PdfPageDocs(name, 1, n),
                                   failBatch, onDuplicate)
       IN  /\ coll' = r.coll
           /\ last' = r.res
    /\ calls' = calls + 1
    /\ UNCHANGED <<salt, onDuplicate, pc, loc, chain, app>>

Search(q, k, fail, tie) ==
    /\ last' = SearchResult(coll, q, k, fail, tie)
    /\ UNCHANGED <<coll, salt, onDuplicate, calls, pc, loc, chain, app>>

GetDocumentCount(fail) ==
    /\ last' = GetDocumentCountResult(coll, fail)
    /\ UNCHANGED <<coll, salt, onDuplicate, calls, pc, loc, chain, app>>

Clear(fail) ==
    /\ LET r == ClearResult(coll, fail)
       IN  /\ coll' = r.coll
           /\ last' = r.res
    /\ UNCHANGED <<salt, onDuplicate, calls, pc, loc, chain, app>>

\* The process ends and a new one starts: the collection is persisted, the
\* seed of the str hash is drawn anew.
Restart(seed) ==
    /\ salt' = seed
    /\ last' = NoResult
    /\ UNCHANGED <<coll, onDuplicate, calls, pc, loc, chain, app>>

NextStore ==
    \/ \E up \in Uploads :
         \E failBatch \in 0..NumBatches(up[2]) :
            AddDocuments(up[1], up[2], failBatch)
    \/ \E q \in Queries, k \in Ks, fail \in {"none", "count", "query"},
          tie \in TiePolicies :
            Search(q, k, fail, tie)
    \/ \E fail \in {"none", "count"} : GetDocumentCount(fail)
    \/ \E fail \in {"none", "get", "delete"} : Clear(fail)
    \/ \E seed \in Salts : Restart(seed)

SpecStore == InitStore /\ [][NextStore]_vars

-----------------------------------------------------------------------------
(* Claims on the vector store, one request at a time (SpecStore) *)

\* C1: every add_documents call that meets no storage failure returns, and
\* stores each of its chunks as a record of its own: no chunk is dropped or
\* refused because its id is the id of a chunk of another call.
C1_NoIdCollision ==
    (last.op = "add" /\ ~last.storageFailed) =>
        /\ last.outcome = "returned"
        /\ Range(last.ids) \subseteq CollIds(coll)
        /\ Len(coll) = last.sizeBefore + Len(last.ids)

\* C2: a search that returns on an index of n records returns exactly
\* min(k, n) documents, by descending score, equal scores in insertion order;
\* none when n = 0.
C2_TopKEarliestFirst ==
    (last.op = "search" /\ last.outcome = "returned") =>
        /\ Len(last.docs) = Min(last.k, Len(coll))
        /\ last.docs = SearchDocs(Len(coll), coll, last.q, last.k, "earliest")

\* C3: when batch j of an add_documents call fails, the records of batches
\* 1..j-1 are stored, batch j has stored nothing, and the error carries the
\* number of records committed before the failure.
C3_PartialInsertReportsCount ==
    (last.op = "add" /\ last.outcome = "raised") =>
        LET j == last.failedBatch
            done == (j - 1) * BatchSize
        IN  /\ \A n \in 1..done : last.ids[n] \in CollIds(coll)
            /\ Len(coll) <= last.sizeBefore + done
            /\ last.errCount = Len(coll) - last.sizeBefore

\* C4: an insert, query or clear in which a storage operation failed does not
\* return normally.
C4_StorageFailurePropagates ==
    (last.op \in {"add", "search", "clear"} /\ last.storageFailed) =>
        last.outcome = "raised"

\* C5: when clear() has returned the index is empty: count() gives 0 and
\* search(any, 5) gives no document.
C5_ClearEmpties ==
    (last.op = "clear" /\ last.outcome = "returned") =>
        /\ GetDocumentCountResult(coll, "none").count = 0
        /\ \A q \in Queries, tie \in TiePolicies :
              SearchResult(coll, q, DefaultK, "none", tie).docs = <<>>

-----------------------------------------------------------------------------
(* The vector store under concurrent requests (SpecConc).  Each request runs *)
(* one operation; it takes a step at each storage operation, and each        *)
(* storage operation is atomic in the store.                                 *)

Procs == {1, 2}

NoLocal ==
    [op |-> "none", outcome |-> "none", ids |-> <<>>, docs |-> <<>>,
     start |-> 0, count |-> 0, all_ids |-> {}, q |-> <<>>, k |-> 0,
     result |-> <<>>, seen |-> {}]

\* The states of the collection a search in flight has lived through, from
\* its count() on (kept for the claims only).
Observed(l, c) ==
    [p \in Procs |-> IF pc[p] = "query" THEN [l[p] EXCEPT !.seen = @ \cup {c}]
                     ELSE l[p]]

InitConc ==
    /\ coll = <<>>
    /\ salt \in Salts
    /\ onDuplicate \in DuplicatePolicies
    /\ calls = 0
    /\ last = NoResult
    /\ pc = [p \in Procs |-> "idle"]
    /\ loc = [p \in Procs |-> NoLocal]
    /\ chain = NoChain
    /\ app = NoApp

\* add_documents up to the loop: the collection, ids, texts and metadatas.
StartAdd(p, name, n) ==
    /\ pc[p] = "idle"
    /\ calls < MaxCalls
    /\ calls' = calls + 1
    /\ pc' = [pc EXCEPT ![p] = "add"]
    /\ LET documents == PdfPageDocs(name, 1, n)
       IN  loc' = [loc EXCEPT ![p] = [NoLocal EXCEPT !.op = "add",
                                        !.ids = Ids(salt, documents),
                                        !.docs = documents]]
    /\ UNCHANGED <<coll, salt, onDuplicate, last, chain, app>>

\* One turn of the loop of add_documents: collection.add of the next batch.
AddBatch(p, fail) ==
    /\ pc[p] = "add"
    /\ LET l   == loc[p]
           end == l.start + BatchSize
           r   == CollAdd(coll, Slice(l.ids, l.start, end),
                          Slice(l.docs, l.start, end), onDuplicate)
       IN  IF fail \/ r.raised
           THEN /\ pc' = [pc EXCEPT ![p] = "done"]
                /\ loc' = [loc EXCEPT ![p].outcome = "raised"]
                /\ coll' = coll
           ELSE /\ coll' = r.coll
                /\ pc' = [pc EXCEPT ![p] = IF end >= Len(l.ids) THEN "done" ELSE "add"]
                /\ loc' = [Observed(loc, r.coll) EXCEPT
                             ![p].start = end,
                             ![p].outcome = IF end >= Len(l.ids) THEN "returned"
                                            ELSE "none"]
    /\ UNCHANGED <<salt, onDuplicate, calls, last, chain, app>>

\* search up to the query: collection.count() and the early return.
StartSearch(p, q, k, fail) ==
    /\ pc[p] = "idle"
    /\ LET base == [NoLocal EXCEPT !.op = "search", !.q = q, !.k = k,
                                   !.seen = {coll}]
       IN  IF fail
           THEN /\ pc' = [pc EXCEPT ![p] = "done"]
                /\ loc' = [loc EXCEPT ![p] = [base EXCEPT !.outcome = "raised"]]
           ELSE IF CollCount(coll) = 0
           THEN /\ pc' = [pc EXCEPT ![p] = "done"]
                /\ loc' = [loc EXCEPT ![p] = [base EXCEPT !.outcome = "returned"]]
           ELSE /\ pc' = [pc EXCEPT ![p] = "query"]
                /\ loc' = [loc EXCEPT ![p] = [base EXCEPT !.count = CollCount(coll)]]
    /\ UNCHANGED <<coll, salt, onDuplicate, calls, last, chain, app>>

\* search from collection.query on, with the count read before.
SearchQuery(p, fail, tie) ==
    /\ pc[p] = "query"
    /\ pc' = [pc EXCEPT ![p] = "done"]
    /\ LET l == loc[p]
       IN  loc' = [loc EXCEPT ![p] =
                     IF fail THEN [l EXCEPT !.outcome = "raised"]
                     ELSE [l EXCEPT !.outcome = "returned",
                                    !.result = SearchDocs(l.count, coll, l.q, l.k, tie)]]
    /\ UNCHANGED <<coll, salt, onDuplicate, calls, last, chain, app>>

\* clear up to the delete: collection.get()["ids"].
StartClear(p, fail) ==
    /\ pc[p] = "idle"
    /\ LET base == [NoLocal EXCEPT !.op = "clear"]
       IN  IF fail \/ CollIds(coll) = {}
           THEN /\ pc' = [pc EXCEPT ![p] = "done"]
                /\ loc' = [loc EXCEPT ![p] = [base EXCEPT !.outcome = "returned"]]
           ELSE /\ pc' = [pc EXCEPT ![p] = "delete"]
                /\ loc' = [loc EXCEPT ![p] = [base EXCEPT !.all_ids = CollIds(coll)]]
    /\ UNCHANGED <<coll, salt, onDuplicate, calls, last, chain, app>>

\* clear: collection.delete(ids=all_ids) of the ids read before.
ClearDelete(p, fail) ==
    /\ pc[p] = "delete"
    /\ pc' = [pc EXCEPT ![p] = "done"]
    /\ LET c2 == IF fail THEN coll ELSE CollDelete(coll, loc[p].all_ids)
       IN  /\ coll' = c2
           /\ loc' = [Observed(loc, c2) EXCEPT ![p].outcome = "returned"]
    /\ UNCHANGED <<salt, onDuplicate, calls, last, chain, app>>

\* The request is over; the next one of this session may start.
Return(p) ==
    /\ pc[p] = "done"
    /\ pc' = [pc EXCEPT ![p] = "idle"]
    /\ loc' = [loc EXCEPT ![p] = NoLocal]
    /\ UNCHANGED <<coll, salt, onDuplicate, calls, last, chain, app>>

NextConc ==
    \E p \in Procs :
        \/ \E up \in Uploads : StartAdd(p, up[1], up[2])
        \/ \E fail \in BOOLEAN : AddBatch(p, fail)
        \/ \E q \in Queries, k \in Ks, fail \in BOOLEAN : StartSearch(p, q, k, fail)
        \/ \E fail \in BOOLEAN, tie \in TiePolicies : SearchQuery(p, fail, tie)
        \/ \E fail \in BOOLEAN : StartClear(p, fail)
        \/ \E fail \in BOOLEAN : ClearDelete(p, fail)
        \/ Return(p)

SpecConc == InitConc /\ [][NextConc]_vars

\* C6: under concurrent requests a search that returns has the result of a
\* search on one state the collection was in during it, each such state
\* holding every batch wholly or not at all.
C6_SearchSeesOneState ==
    \A p \in Procs :
        (pc[p] = "done" /\ loc[p].op = "search" /\ loc[p].outcome = "returned") =>
            \E S \in loc[p].seen, tie \in TiePolicies :
                loc[p].result = SearchDocs(Len(S), S, loc[p].q, loc[p].k, tie)

-----------------------------------------------------------------------------
(* rag_chain.py *)

\* _build_context_string(retrieved_docs)
Location(doc) ==
    LET source == IF "source" \in DOMAIN doc.metadata THEN doc.metadata.source
                  ELSE <<"Unknown">>
        page   == MetaGet(doc.metadata, "page")
        chunk  == MetaGet(doc.metadata, "chunk")
    IN  <<"Source: ">> \o source
        \o (IF Truthy(page) THEN <<", Page ">> \o Str(page) ELSE <<>>)
        \o (IF Truthy(chunk) THEN <<", Chunk ">> \o Str(chunk) ELSE <<>>)

ContextPart(i, doc) ==
    <<"[", ToString(i), "] ">> \o Location(doc) \o <<"\n">> \o doc.page_content

RECURSIVE JoinParts(_, _)
JoinParts(docs, i) ==
    IF i > Len(docs) THEN <<>>
    ELSE (IF i > 1 THEN <<"\n\n---\n\n">> ELSE <<>>)
         \o ContextPart(i, docs[i]) \o JoinParts(docs, i + 1)

BuildContextString(retrieved_docs) ==
    IF retrieved_docs = <<>> THEN <<"No relevant documents found.">>
    ELSE JoinParts(retrieved_docs, 1)

\* _format_chat_history(chat_history, max_turns=5); a turn is <<role, content>>.
FormatChatHistoryFive(chat_history) ==
    LET recent == LastN(chat_history, MaxTurns)
        kept   == SelectSeq(recent, LAMBDA t : t[1] \in {"user", "assistant"})
    IN  [n \in 1..Len(kept) |-> [role |-> kept[n][1], content |-> kept[n][2]]]

FormatChatHistory(chat_history) ==
    LET recent == LastN(chat_history, MaxTurns * 2)
        kept   == SelectSeq(recent, LAMBDA t : t[1] \in {"user", "assistant"})
    IN  [n \in 1..Len(kept) |-> [role |-> kept[n][1], content |-> kept[n][2]]]

\* key = f"{source}-p{page}-c{chunk}"
CitationKeyNoChunk(doc) ==
    LET source == IF "source" \in DOMAIN doc.metadata THEN doc.metadata.source
                  ELSE <<"Unknown">>
    IN  source \o <<"-", "p">> \o Str(MetaGet(doc.metadata, "page"))

CitationKey(doc) ==
    LET source == IF "source" \in DOMAIN doc.metadata THEN doc.metadata.source
                  ELSE <<"Unknown">>
    IN  source \o <<"-", "p">> \o Str(MetaGet(doc.metadata, "page"))
               \o <<"-", "c">> \o Str(MetaGet(doc.metadata, "chunk"))

\* doc.page_content[:150] + "..." if len(doc.page_content) > 150 else doc.page_content
SnippetNoEllipsis(content) == Slice(content, 0, SnippetLen)

Snippet(content) ==
    IF Len(content) > SnippetLen
    THEN Slice(content, 0, SnippetLen) \o <<".", ".", ".">>
    ELSE content

\* The citation dict of one document.
Citation(doc) ==
    LET source == IF "source" \in DOMAIN doc.metadata THEN doc.metadata.source
                  ELSE <<"Unknown">>
        page   == MetaGet(doc.metadata, "page")
        chunk  == MetaGet(doc.metadata, "chunk")
        type   == IF "type" \in DOMAIN doc.metadata THEN doc.metadata.type ELSE ""
        base   == [source |-> source, type |-> type,
                   snippet |-> Snippet(doc.page_content)]
        withPage == IF Truthy(page) THEN [page |-> page] @@ base ELSE base
    IN  IF Truthy(chunk) THEN [chunk |-> chunk] @@ withPage ELSE withPage

\* _extract_sources(retrieved_docs): the loop from document i on, with the
\* keys seen so far.
RECURSIVE ExtractFrom(_, _, _)
ExtractFrom(docs, i, seen) ==
    IF i > Len(docs) THEN <<>>
    ELSE LET key == CitationKey(docs[i])
         IN  IF key \notin seen
             THEN <<Citation(docs[i])>> \o ExtractFrom(docs, i + 1, seen \cup {key})
             ELSE ExtractFrom(docs, i + 1, seen)

ExtractSources(retrieved_docs) == ExtractFrom(retrieved_docs, 1, {})

SystemPrompt(mode) ==
    IF mode = "strict" THEN <<"STRICT_SYSTEM_PROMPT">> ELSE <<"HYBRID_SYSTEM_PROMPT">>

UserMessage(question, context_string) ==
    <<"Document Context:\n">> \o context_string \o <<"\n\nQuestion: ">> \o question
    \o <<"\n\nPlease provide a detailed answer based on the above context.">>

\* The head of the answer on a failure, f"(cross mark) Error generating response: ".
ErrorMarker == "(x) Error generating response: "

\* The try block of generate_answer: the content of the response, or on any
\* exception f"(cross mark) Error generating response: {str(e)}".
LlmAnswerBare(llm) == IF llm = "ok" THEN <<"response">> ELSE <<llm>>

LlmAnswer(llm) == IF llm = "ok" THEN <<"response">> ELSE <<ErrorMarker, llm>>

\* generate_answer(question, retrieved_docs, chat_history, mode).  llm is what
\* the one client.chat.completions.create call does: "ok", or the failure
\* whose exception the try block catches.
GenerateAnswerResult(question, retrieved_docs, chat_history, mode, llm) ==
    LET messages == <<[role |-> "system", content |-> SystemPrompt(mode)]>>
                    \o FormatChatHistory(chat_history)
                    \o <<[role |-> "user",
                          content |-> UserMessage(question,
                                         BuildContextString(retrieved_docs))]>>
        answer == LlmAnswer(llm)
    IN  [question |-> question, docs |-> retrieved_docs, history |-> chat_history,
         mode |-> mode, llm |-> llm, messages |-> messages, llmCalls |-> 1,
         outcome |-> "returned", answer |-> answer,
         sources |-> ExtractSources(retrieved_docs)]

-----------------------------------------------------------------------------
(* Inputs of generate_answer *)

DocA11 ==
    [page_content |-> <<"a", "x">>,
     metadata |-> [source |-> <<"a">>, page |-> 1, chunk |-> 1, type |-> "pdf"]]

\* The same place of the same file with another text (the file was changed
\* and ingested again).
DocA11b ==
    [page_content |-> <<"x", "y">>,
     metadata |-> [source |-> <<"a">>, page |-> 1, chunk |-> 1, type |-> "pdf"]]

DocA12 ==
    [page_content |-> <<"a", "y">>,
     metadata |-> [source |-> <<"a">>, page |-> 1, chunk |-> 2, type |-> "pdf"]]

\* A DOCX (no page) whose name reads like the key of a page of "a".
DocNoPage ==
    [page_content |-> <<"b", "x">>,
     metadata |-> [source |-> <<"a", "-", "p", "1">>, chunk |-> 1, type |-> "docx"]]

ChainDocs == {DocA11, DocA11b, DocA12, DocNoPage}

RetrievedLists == UNION {[1..n -> ChainDocs] : n \in 0..MaxRetrieved}

\* A history of n turns, user and assistant in turn, as app.py keeps it.
History(n) ==
    [i \in 1..n |-> <<IF i % 2 = 1 THEN "user" ELSE "assistant", <<ToString(i)>>>>]

Histories == {History(n) : n \in 0..MaxHist}
Modes == {"strict", "hybrid"}
\* "malformed": a response without choices, on which response.choices[0]
\* raises inside the try block.
LlmOutcomes == {"ok", "timeout", "malformed"}
Questions == {<<"q">>}

\* A chunk of n characters.
LongContent(n) == [i \in 1..n |-> IF i % 2 = 1 THEN "x" ELSE "y"]

LongDoc(n) ==
    [page_content |-> LongContent(n),
     metadata |-> [source |-> <<"a">>, page |-> 1, chunk |-> 1, type |-> "pdf"]]

-----------------------------------------------------------------------------
(* generate_answer, one call at a time (SpecChain) *)

InitChain ==
    /\ coll = <<>>
    /\ salt = 0
    /\ onDuplicate = "skip"
    /\ calls = 0
    /\ last = NoResult
    /\ pc = <<>>
    /\ loc = <<>>
    /\ chain = NoChain
    /\ app = NoApp

GenerateAnswer(question, retrieved_docs, chat_history, mode, llm) ==
    /\ chain.outcome = "none"
    /\ chain' = GenerateAnswerResult(question, retrieved_docs, chat_history, mode, llm)
    /\ UNCHANGED <<coll, salt, onDuplicate, calls, last, pc, loc, app>>

\* The caller has taken the result; the next call may start.
ChainReturn ==
    /\ chain.outcome # "none"
    /\ chain' = NoChain
    /\ UNCHANGED <<coll, salt, onDuplicate, calls, last, pc, loc, app>>

NextChain ==
    \/ \E question \in Questions, docs \in RetrievedLists, h \in Histories,
          mode \in Modes, llm \in LlmOutcomes :
            GenerateAnswer(question, docs, h, mode, llm)
    \/ ChainReturn

SpecChain == InitChain /\ [][NextChain]_vars

(* _extract_sources on one chunk of each length (SpecSnippet) *)

ExtractSnippet(n) ==
    /\ chain.outcome = "none"
    /\ chain' = [NoChain EXCEPT !.docs = <<LongDoc(n)>>,
                                !.sources = ExtractSources(<<LongDoc(n)>>),
                                !.outcome = "extracted"]
    /\ UNCHANGED <<coll, salt, onDuplicate, calls, last, pc, loc, app>>

NextSnippet ==
    \/ \E n \in 1..MaxContentLen : ExtractSnippet(n)
    \/ ChainReturn

SpecSnippet == InitChain /\ [][NextSnippet]_vars

-----------------------------------------------------------------------------
(* Claims on rag_chain *)

\* The key of a document or of a citation as the triple of its fields.
KeyTriple(m) ==
    <<IF "source" \in DOMAIN m THEN m.source ELSE <<"Unknown">>,
      MetaGet(m, "page"), MetaGet(m, "chunk")>>

FirstAt(docs, key) ==
    CHOOSE i \in 1..Len(docs) :
        /\ KeyTriple(docs[i].metadata) = key
        /\ \A j \in 1..(i - 1) : KeyTriple(docs[j].metadata) # key

\* C7: the citations of a call hold each key (source, page, chunk) of the
\* retrieved documents exactly once, in the order in which the keys first
\* occur in the documents.
C7_OneCitationPerKey ==
    chain.outcome = "returned" =>
        LET docs == chain.docs
            cits == chain.sources
        IN  /\ \A i, j \in 1..Len(cits) :
                 i # j => KeyTriple(cits[i]) # KeyTriple(cits[j])
            /\ {KeyTriple(cits[i]) : i \in 1..Len(cits)}
                 = {KeyTriple(docs[i].metadata) : i \in 1..Len(docs)}
            /\ \A i, j \in 1..Len(cits) :
                 i < j => FirstAt(docs, KeyTriple(cits[i]))
                            < FirstAt(docs, KeyTriple(cits[j]))

\* Two retrieved documents share a key, a third one has another key.
C7_Witness ==
    /\ chain.outcome = "returned"
    /\ Len(chain.docs) = 3
    /\ KeyTriple(chain.docs[1].metadata) = KeyTriple(chain.docs[3].metadata)
    /\ chain.docs[1] # chain.docs[3]
    /\ Len(chain.sources) = 2

C9_FailureAnswered ==
    (chain.outcome # "none" /\ chain.llm # "ok") =>
        /\ chain.llmCalls = 1
        /\ chain.outcome = "returned"
        /\ Len(chain.answer) >= 1
        /\ chain.answer[1] = ErrorMarker
        /\ chain.sources = ExtractSources(chain.docs)
        /\ chain.sources =
             GenerateAnswerResult(chain.question, chain.docs, chain.history,
                                  chain.mode, "ok").sources

\* The generation call failed on documents that have citations.
C9_Witness ==
    /\ chain.outcome = "returned"
    /\ chain.llm = "timeout"
    /\ Len(chain.sources) >= 2

\* C10: the messages are the system prompt of the mode, the last
\* min(len(history), 10) turns of the history in their order, and a user
\* message holding the context string and then the question.
C10_MessageSequence ==
    chain.outcome = "returned" =>
        LET h == chain.history
            w == Min(Len(h), 2 * MaxTurns)
            m == chain.messages
        IN  /\ Len(m) = w + 2
            /\ m[1].role = "system"
            /\ m[1].content = IF chain.mode = "strict" THEN <<"STRICT_SYSTEM_PROMPT">>
                              ELSE <<"HYBRID_SYSTEM_PROMPT">>
            /\ \A i \in 1..w :
                  /\ m[1 + i].role = h[Len(h) - w + i][1]
                  /\ m[1 + i].content = h[Len(h) - w + i][2]
            /\ m[w + 2].role = "user"
            /\ m[w + 2].content =
                  <<"Document Context:\n">> \o BuildContextString(chain.docs)
                  \o <<"\n\nQuestion: ">> \o chain.question
                  \o <<"\n\nPlease provide a detailed answer based on the above context.">>

\* A history longer than the window was given, with retrieved documents.
C10_Witness ==
    /\ chain.outcome = "returned"
    /\ Len(chain.history) > 2 * MaxTurns
    /\ Len(chain.messages) = 2 * MaxTurns + 2
    /\ chain.docs # <<>>

-----------------------------------------------------------------------------
(* Claims on get_document_count (SpecStore) *)

\* C12: get_document_count always returns: the number of stored records, or
\* 0 when the storage operation failed.
C12_CountNeverRaises ==
    last.op = "count" =>
        /\ last.outcome = "returned"
        /\ last.count = IF last.storageFailed THEN 0 ELSE Len(coll)

\* The count failed on a collection that holds records.
C12_Witness ==
    /\ last.op = "count"
    /\ last.storageFailed
    /\ last.outcome = "returned"
    /\ Len(coll) > 0

-----------------------------------------------------------------------------
(* ingest.py.  A file is [name, ext, units]: units gives, for each page of a
   PDF, or for the whole text of a DOCX or CSV, the number of chunks
   text_splitter.split_text returns for it; 0 stands for no text. *)

\* _load_pdf(file): the pages in order, numbered from 1; a page without text
\* adds nothing and keeps its number.
RECURSIVE LoadPdfFrom(_, _)
LoadPdfFrom(file, page_num) ==
    IF page_num > Len(file.units) THEN <<>>
    ELSE PdfPageDocs(file.name, page_num, file.units[page_num])
         \o LoadPdfFrom(file, page_num + 1)

LoadPdf(file) == LoadPdfFrom(file, 1)

\* _load_docx(file): no page in the metadata; [] when there is no text.
LoadDocx(file) ==
    [idx \in 1..file.units[1] |->
        [page_content |-> ContentOf(file.name, idx),
         metadata |-> [source |-> file.name, chunk |-> idx, type |-> "docx"]]]

\* _load_csv(file): no page in the metadata; the column names are added.
LoadCsv(file) ==
    [idx \in 1..file.units[1] |->
        [page_content |-> ContentOf(file.name, idx),
         metadata |-> [source |-> file.name, chunk |-> idx, type |-> "csv",
                       columns |-> <<"columns">>]]]

\* ingest_file(file): the loader of the extension, or ValueError.
IngestFile(file) ==
    IF file.ext = ".pdf" THEN [raised |-> FALSE, docs |-> LoadPdf(file)]
    ELSE IF file.ext = ".docx" THEN [raised |-> FALSE, docs |-> LoadDocx(file)]
    ELSE IF file.ext = ".csv" THEN [raised |-> FALSE, docs |-> LoadCsv(file)]
    ELSE [raised |-> TRUE, docs |-> <<>>]

\* ingest_files(files): the Documents of the files in order; the exception of
\* one file ends the call.
RECURSIVE IngestFrom(_, _)
IngestFrom(files, i) ==
    IF i > Len(files) THEN [raised |-> FALSE, docs |-> <<>>]
    ELSE LET one == IngestFile(files[i])
         IN  IF one.raised THEN one
             ELSE LET rest == IngestFrom(files, i + 1)
                  IN  IF rest.raised THEN rest
                      ELSE [raised |-> FALSE, docs |-> one.docs \o rest.docs]

IngestFiles(files) == IngestFrom(files, 1)

-----------------------------------------------------------------------------
(* app.py: the handlers of one script run on the session s and the
   collection c *)

\* The sentence STRICT_SYSTEM_PROMPT tells the model to answer with when the
\* context does not hold the answer (its leading warning sign left out).
RefusalString ==
    "I don't have enough information in the uploaded documents to answer this question."

\* The session at the start of a handler: what the last handler left is
\* forgotten, the history and the size of the collection are remembered.
Fresh(s, c) ==
    [s EXCEPT !.event = "none", !.prevHistory = s.chat_history,
              !.indexSize = Len(c), !.ingested = <<>>, !.call = NoChain]

\* "Process Documents": ingest_files, the error on no Documents, add_documents,
\* documents_loaded and file_names; every exception ends in st.error.
UploadResult(s, c, seed, files, failBatch, onDup) ==
    LET ing  == IngestFiles(files)
        r    == AddDocumentsResult(c, seed, ing.docs, failBatch, onDup)
        seen == [Fresh(s, c) EXCEPT !.ingested = ing.docs]
    IN  IF ing.raised
        THEN [coll |-> c, app |-> [seen EXCEPT !.event = "upload_error"]]
        ELSE IF ing.docs = <<>>
        THEN [coll |-> c, app |-> [seen EXCEPT !.event = "upload_empty"]]
        ELSE IF r.res.outcome = "raised"
        THEN [coll |-> r.coll, app |-> [seen EXCEPT !.event = "upload_error"]]
        ELSE [coll |-> r.coll,
              app |-> [seen EXCEPT
                         !.documents_loaded = TRUE,
                         !.file_names = [n \in 1..Len(files) |-> files[n].name],
                         !.event = "uploaded"]]

\* "Clear Knowledge Base": clear(), then the session is reset.
ClearButtonResult(s, c, fail) ==
    [coll |-> ClearResult(c, fail).coll,
     app |-> [Fresh(s, c) EXCEPT !.chat_history = <<>>,
                                 !.documents_loaded = FALSE,
                                 !.file_names = <<>>,
                                 !.event = "cleared"]]

\* history_for_llm = [(entry["role"], entry["content"]) for entry in chat_history]
HistoryForLlm(chat_history) ==
    [n \in 1..Len(chat_history) |->
        <<chat_history[n].role, chat_history[n].content>>]

\* "Save to chat history": the user turn, then the assistant turn.
AppendTurnsAssistantOnly(chat_history, prompt, result) ==
    chat_history
    \o <<[role |-> "assistant", content |-> result.answer,
          sources |-> result.sources]>>

AppendTurns(chat_history, prompt, result) ==
    chat_history
    \o <<[role |-> "user", content |-> prompt],
         [role |-> "assistant", content |-> result.answer,
          sources |-> result.sources]>>

\* The chat input handler.  failCount1 and failCount2 are the two calls of
\* get_document_count, made only while documents_loaded is False; an
\* exception of search leaves the script before anything is saved.
AskResult(s, c, prompt, failCount1, failCount2, failSearch, tie, llm) ==
    LET refused == /\ ~s.documents_loaded
                   /\ GetDocumentCountResult(c, failCount1).count = 0
        loaded == \/ s.documents_loaded
                  \/ GetDocumentCountResult(c, failCount2).count > 0
        retrieved == SearchResult(c, prompt, DefaultK, failSearch, tie)
        result == GenerateAnswerResult(prompt, retrieved.docs,
                                       HistoryForLlm(s.chat_history),
                                       s.mode, llm)
        seen == Fresh(s, c)
    IN  IF refused THEN [seen EXCEPT !.event = "refused"]
        ELSE IF retrieved.outcome = "raised"
        THEN [seen EXCEPT !.documents_loaded = loaded, !.event = "raised"]
        ELSE [seen EXCEPT
                !.documents_loaded = loaded,
                !.chat_history = AppendTurns(s.chat_history, prompt, result),
                !.event = "answered",
                !.call = result]

-----------------------------------------------------------------------------
(* Inputs of the application *)

PdfA == [name |-> <<"a">>, ext |-> ".pdf", units |-> <<SmallUpload, 0, 1>>]
DocxB == [name |-> <<"b">>, ext |-> ".docx", units |-> <<SmallUpload>>]
CsvC == [name |-> <<"c">>, ext |-> ".csv", units |-> <<1>>]
EmptyDocx == [name |-> <<"e">>, ext |-> ".docx", units |-> <<0>>]
TxtN == [name |-> <<"n">>, ext |-> ".txt", units |-> <<1>>]
FileLists == {<<PdfA>>, <<DocxB, CsvC>>, <<EmptyDocx>>, <<PdfA, TxtN>>}
SessionFileLists == {<<CsvC>>, <<EmptyDocx>>}
Prompts == {<<"x">>}
AppLlmOutcomes == {"ok", "timeout"}

-----------------------------------------------------------------------------
(* The application: one session, one handler at a time *)

InitApp ==
    /\ coll = <<>>
    /\ salt \in Salts
    /\ onDuplicate \in DuplicatePolicies
    /\ calls = 0
    /\ last = NoResult
    /\ pc = <<>>
    /\ loc = <<>>
    /\ chain = NoChain
    /\ app = NoApp

Upload(files, failBatch) ==
    /\ calls < MaxCalls
    /\ LET r == UploadResult(app, coll, salt, files, failBatch, onDuplicate)
       IN  /\ coll' = r.coll
           /\ app' = r.app
    /\ calls' = calls + 1
    /\ UNCHANGED <<salt, onDuplicate, last, pc, loc, chain>>

\* maxPairs bounds the questions answered in the session.
Ask(maxPairs, prompt, failCount1, failCount2, failSearch, tie, llm) ==
    /\ Len(app.chat_history) < 2 * maxPairs
    /\ app' = AskResult(app, coll, prompt, failCount1, failCount2, failSearch,
                        tie, llm)
    /\ UNCHANGED <<coll, salt, onDuplicate, calls, last, pc, loc, chain>>

ClearButton(fail) ==
    /\ LET r == ClearButtonResult(app, coll, fail)
       IN  /\ coll' = r.coll
           /\ app' = r.app
    /\ UNCHANGED <<salt, onDuplicate, calls, last, pc, loc, chain>>

\* The mode radio: st.session_state.mode follows the choice.
SetMode(mode) ==
    /\ app' = [Fresh(app, coll) EXCEPT !.mode = mode, !.event = "mode"]
    /\ UNCHANGED <<coll, salt, onDuplicate, calls, last, pc, loc, chain>>

\* The server process starts again and the browser opens a new session: a
\* new hash seed, st.session_state initialised anew, the collection kept.
RestartApp(seed) ==
    /\ salt' = seed
    /\ app' = NoApp
    /\ UNCHANGED <<coll, onDuplicate, calls, last, pc, loc, chain>>

\* Another browser session presses "Clear Knowledge Base": the collection is
\* shared by the sessions, st.session_state is not.
OtherSessionClear ==
    /\ coll # <<>>
    /\ coll' = ClearResult(coll, "none").coll
    /\ UNCHANGED <<salt, onDuplicate, calls, last, pc, loc, chain, app>>

NextApp ==
    \/ \E files \in FileLists, failBatch \in 0..1 : Upload(files, failBatch)
    \/ \E prompt \in Prompts, failCount1 \in {"none", "count"},
          failCount2 \in {"none", "count"},
          failSearch \in {"none", "count", "query"},
          tie \in TiePolicies, llm \in AppLlmOutcomes :
            Ask(FewPairs, prompt, failCount1, failCount2, failSearch, tie, llm)
    \/ \E fail \in {"none", "get", "delete"} : ClearButton(fail)
    \/ \E mode \in Modes : SetMode(mode)
    \/ \E seed \in Salts : RestartApp(seed)
    \/ OtherSessionClear

SpecApp == InitApp /\ [][NextApp]_vars

-----------------------------------------------------------------------------
(* One long session of the application in strict mode: questions, uploads of
   one small file and clears, until MaxPairs questions are answered.  The
   collection never holds two records, so the order of ties plays no part. *)

NextSession ==
    \/ \E files \in SessionFileLists, failBatch \in 0..1 :
            Upload(files, failBatch)
    \/ \E prompt \in Prompts, failCount1 \in {"none", "count"},
          failCount2 \in {"none", "count"},
          failSearch \in {"none", "count", "query"},
          llm \in AppLlmOutcomes :
            Ask(MaxPairs, prompt, failCount1, failCount2, failSearch,
                "earliest", llm)
    \/ \E fail \in {"none", "get", "delete"} : ClearButton(fail)

SpecSession == InitApp /\ [][NextSession]_vars

-----------------------------------------------------------------------------
(* Claims on the empty index and the chunk numbering (SpecApp) and on the
   chat history (SpecSession) *)

\* C11: a question asked in strict mode while the index is empty is answered
\* with the fixed refusal sentence and no citations, whatever the LLM returns.
C11_EmptyStrictRefuses ==
    (/\ app.event \in {"refused", "answered"}
     /\ app.indexSize = 0
     /\ app.mode = "strict")
    => /\ app.event = "answered"
       /\ app.call.answer = <<RefusalString>>
       /\ app.call.sources = <<>>

\* The unit of a chunk: its source and its page (Absent without one).
UnitOf(metadata) == <<metadata.source, MetaGet(metadata, "page")>>

\* C13: the Documents of one page or one file are numbered 1, 2, ..., n as
\* they are emitted, starting again at 1 on each page, and no two records of
\* the collection have the same source, page and chunk.
C13_ChunkIndexUnique ==
    /\ \A i \in 1..Len(app.ingested) :
          app.ingested[i].metadata.chunk =
             IF i > 1 /\ UnitOf(app.ingested[i - 1].metadata)
                          = UnitOf(app.ingested[i].metadata)
             THEN app.ingested[i - 1].metadata.chunk + 1
             ELSE 1
    /\ \A i, j \in 1..Len(coll) :
          (/\ UnitOf(coll[i].metadata) = UnitOf(coll[j].metadata)
           /\ coll[i].metadata.chunk = coll[j].metadata.chunk)
          => i = j

\* The window of generate_answer: its messages without the system prompt
\* and the final user message.
WindowOf(call) == SubSeq(call.messages, 2, Len(call.messages) - 1)

\* C14: the chat history has even length and alternates user, assistant from
\* a user turn; a refused question leaves it as it was, an answered one adds
\* its user turn and its assistant turn, a clear empties it; the window given
\* to the LLM is the last whole pairs of the history, at most MaxTurns.
C14_HistoryAlternates ==
    LET h == app.chat_history
        prev == app.prevHistory
        w == WindowOf(app.call)
    IN  /\ Len(h) % 2 = 0
        /\ \A i \in 1..Len(h) :
              h[i].role = IF i % 2 = 1 THEN "user" ELSE "assistant"
        /\ app.event = "refused" => h = prev
        /\ app.event = "cleared" => h = <<>>
        /\ app.event = "answered" =>
              /\ Len(h) = Len(prev) + 2
              /\ SubSeq(h, 1, Len(prev)) = prev
              /\ h[Len(h) - 1] = [role |-> "user", content |-> app.call.question]
              /\ h[Len(h)].content = app.call.answer
              /\ Len(w) = Min(Len(prev), 2 * MaxTurns)
              /\ Len(w) % 2 = 0
              /\ \A i \in 1..Len(w) :
                    /\ w[i].role = IF i % 2 = 1 THEN "user" ELSE "assistant"
                    /\ w[i].content = prev[Len(prev) - Len(w) + i].content

\* A question was answered on a history longer than the window.
C14_Witness ==
    /\ app.event = "answered"
    /\ Len(app.prevHistory) > 2 * MaxTurns
    /\ Len(WindowOf(app.call)) = 2 * MaxTurns

====
